---- MODULE Spec2Model ----
(***************************************************************************)
(* Model of the tool-call handler and executeApiTool of the generated Gong *)
(* MCP server: input validation, request building, the cursor pagination   *)
(* loop, the shape-directed page merge and the error formatter; and of     *)
(* acquireOAuth2Token with its process-wide token cache.                   *)
(***************************************************************************)
EXTENDS Integers, Sequences, FiniteSets, TLC

VARIABLES env, pc, toolName, definition, toolArgs, validatedArgs, shouldPaginate,
          allData, currentCursor, paginationInfo, requests, pages, cursors,
          caught, result,
          tokenCache, clock, acquire, tokenRequests

\* process.env and the state of the invocations of executeApiTool
toolVars == <<env, pc, toolName, definition, toolArgs, validatedArgs, shouldPaginate,
              allData, currentCursor, paginationInfo, requests, pages, cursors,
              caught, result>>

\* the process-wide token cache, the clock and the calls of acquireOAuth2Token
oauthVars == <<tokenCache, clock, acquire, tokenRequests>>

vars == <<toolVars, oauthVars>>

(* ------------------------------ bounds --------------------------------- *)

\* pages a paginated invocation may fetch under Spec
MaxPages == 3
\* pages a paginated invocation may fetch under SpecExtract
MaxProbePages == 2
\* pages a paginated invocation may fetch under SpecMerge
MaxMergePages == 3
\* longest item array a page carries under SpecMerge
MaxItems == 2
\* entries the request and response histories of an invocation keep
MaxLog == 6
\* the value at which a page counter stops growing; stands for 2^53, where
\* n++ on a JavaScript number leaves n as it is
MaxCount == 8

(* --------------------------- JSON values ------------------------------- *)

\* a key that is missing from an object (JavaScript undefined)
Absent == "<absent>"
\* the JSON / JavaScript null
Null == "<null>"

\* JavaScript truthiness of a string-or-null-or-undefined value
Truthy(c) == c \notin {Absent, Null, ""}

\* x || null
OrNull(c) == IF Truthy(c) THEN c ELSE Null

\* the value of a field that may hold an item array or a nested object
AbsentV == [t |-> "absent", a |-> <<>>, npc |-> Absent]
Arr(s) == [t |-> "array", a |-> s, npc |-> Absent]
Obj(c) == [t |-> "object", a |-> <<>>, npc |-> c]

ArrayFields == <<"records", "calls", "users", "results">>

\* the items of page k under field f: n items labelled with their origin
ItemsOf(k, f, n) == [j \in 1..n |-> [page |-> k, field |-> f, idx |-> j]]

NoInfo == [set |-> FALSE, hasMorePages |-> FALSE, totalPages |-> 0, currentPage |-> 0]

\* a response body / the accumulated result.  kind "null" is null, "empty" is
\* the empty string axios yields for an empty body, "array" a top-level array
\* (its elements in items), "object" a JSON object with the fields below.
BodyOf(kind, items, rec, calls, users, results, npc, cur, rid) ==
    [kind |-> kind, items |-> items, records |-> rec, calls |-> calls,
     users |-> users, results |-> results, nextPageCursor |-> npc,
     cursor |-> cur, requestId |-> rid,
     additionalPages |-> <<>>, _paginationInfo |-> NoInfo]

NullBody == BodyOf("null", <<>>, AbsentV, AbsentV, AbsentV, AbsentV, Absent, Absent, Absent)
EmptyBody == BodyOf("empty", <<>>, AbsentV, AbsentV, AbsentV, AbsentV, Absent, Absent, Absent)
ArrayBody(s) == BodyOf("array", s, AbsentV, AbsentV, AbsentV, AbsentV, Absent, Absent, Absent)
ObjectBody(rec, calls, users, results, npc, cur, rid) ==
    BodyOf("object", <<>>, rec, calls, users, results, npc, cur, rid)

\* !allData
Falsy(d) == d.kind \in {"null", "empty"}

(* ------------------------- operation catalog --------------------------- *)

BriefRequired == {"workspace-id", "brief-name", "entity-type", "crm-entity-id", "period-type"}
BriefOptional == {"from-date-time", "to-date-time"}

ScalarKeys == {"paginate", "cursor", "id", "emailAddress"} \cup BriefRequired \cup BriefOptional

QueryOf(names) == [j \in 1..Len(names) |-> [name |-> names[j], in |-> "query"]]

toolDefinitionMap ==
    [getv2callsbyid |->
        [name |-> "getv2callsbyid", method |-> "get", pathTemplate |-> "/v2/calls/{id}",
         inputSchema |-> [wellFormed |-> TRUE, properties |-> {"id"}, required |-> {"id"}],
         executionParameters |-> <<[name |-> "id", in |-> "path"]>>,
         requestBodyContentType |-> Absent,
         securityRequirements |-> <<"basicAuth">>],
     postv2callsextensive |->
        [name |-> "postv2callsextensive", method |-> "post", pathTemplate |-> "/v2/calls/extensive",
         inputSchema |-> [wellFormed |-> TRUE, properties |-> {"requestBody", "paginate"},
                          required |-> {"requestBody"}],
         executionParameters |-> <<>>,
         requestBodyContentType |-> "application/json",
         securityRequirements |-> <<"basicAuth">>],
     postv2callstranscript |->
        [name |-> "postv2callstranscript", method |-> "post", pathTemplate |-> "/v2/calls/transcript",
         inputSchema |-> [wellFormed |-> TRUE, properties |-> {"requestBody", "paginate"},
                          required |-> {"requestBody"}],
         executionParameters |-> <<>>,
         requestBodyContentType |-> "application/json",
         securityRequirements |-> <<"basicAuth">>],
     getv2users |->
        [name |-> "getv2users", method |-> "get", pathTemplate |-> "/v2/users",
         inputSchema |-> [wellFormed |-> TRUE, properties |-> {"cursor", "paginate"}, required |-> {}],
         executionParameters |-> QueryOf(<<"cursor">>),
         requestBodyContentType |-> Absent,
         securityRequirements |-> <<"basicAuth">>],
     getv2dataprivacydataforemailaddress |->
        [name |-> "getv2dataprivacydataforemailaddress", method |-> "get",
         pathTemplate |-> "/v2/data-privacy/data-for-email-address",
         inputSchema |-> [wellFormed |-> TRUE, properties |-> {"emailAddress", "cursor", "paginate"},
                          required |-> {"emailAddress"}],
         executionParameters |-> QueryOf(<<"emailAddress", "cursor">>),
         requestBodyContentType |-> Absent,
         securityRequirements |-> <<"basicAuth">>],
     getv2askanythinggeneratebrief |->
        [name |-> "getv2askanythinggeneratebrief", method |-> "get",
         pathTemplate |-> "/v2/askanything/generate-brief",
         inputSchema |-> [wellFormed |-> TRUE, properties |-> BriefRequired \cup BriefOptional,
                          required |-> BriefRequired],
         executionParameters |-> QueryOf(<<"workspace-id", "brief-name", "entity-type",
                                           "crm-entity-id", "period-type",
                                           "from-date-time", "to-date-time">>),
         requestBodyContentType |-> Absent,
         securityRequirements |-> <<"basicAuth">>]]

ToolNames == DOMAIN toolDefinitionMap

\* the `definition` of an invocation that has not reached executeApiTool
NoDefinition ==
    [name |-> Absent, method |-> Absent, pathTemplate |-> Absent,
     inputSchema |-> [wellFormed |-> FALSE, properties |-> {}, required |-> {}],
     executionParameters |-> <<>>, requestBodyContentType |-> Absent,
     securityRequirements |-> <<>>]

\* definition.executionParameters.some(p => p.name === "cursor" && p.in === "query")
HasCursorQuery(def) ==
    \E j \in 1..Len(def.executionParameters) :
        def.executionParameters[j].name = "cursor" /\ def.executionParameters[j].in = "query"

(* ----------------------------- arguments ------------------------------- *)

\* the `paginate` argument: absent, a boolean or a string
PaginateValues == {Absent, "bool:true", "bool:false", "str:true", "str:false"}

NoRequestBody == [present |-> FALSE, filter |-> Absent, cursor |-> Absent]
RequestBody(filter, cursor) == [present |-> TRUE, filter |-> filter, cursor |-> cursor]

NoFields == [k \in ScalarKeys |-> Absent]
ArgsOf(fields, rb) == [fields |-> fields, requestBody |-> rb]
NoArgs == ArgsOf(NoFields, NoRequestBody)

\* the keys an argument object carries
KeysOf(args) == {k \in ScalarKeys : args.fields[k] # Absent}
                    \cup (IF args.requestBody.present THEN {"requestBody"} ELSE {})

(* ----------------------------- validation ------------------------------ *)

\* the type check of one declared property: `paginate` is declared boolean,
\* `requestBody` an object that requires `filter`, the others are strings
PropertyAccepts(k, args) ==
    CASE k = "paginate" -> args.fields[k] \in {Absent, "bool:true", "bool:false"}
      [] k = "requestBody" -> args.requestBody.present => args.requestBody.filter # Absent
      [] OTHER -> TRUE

\* a validator that checks the required keys and no types
SchemaAcceptsRequiredOnly(schema, args) ==
    ~schema.wellFormed \/ schema.required \subseteq KeysOf(args)

\* zodSchema.parse(toolArgs) succeeds
SchemaAccepts(schema, args) ==
    \/ ~schema.wellFormed
    \/ /\ schema.required \subseteq KeysOf(args)
       /\ \A k \in schema.properties : PropertyAccepts(k, args)

\* the object zodSchema.parse returns: a compiled z.object keeps the declared
\* properties only, the fallback z.object({}).passthrough() keeps them all
SchemaOutput(schema, args) ==
    IF ~schema.wellFormed THEN args
    ELSE ArgsOf([k \in ScalarKeys |-> IF k \in schema.properties THEN args.fields[k] ELSE Absent],
                IF "requestBody" \in schema.properties THEN args.requestBody ELSE NoRequestBody)

\* a loop that pages unless told not to
ShouldPaginateUnlessFalse(args) == args.fields["paginate"] \notin {"bool:false", "str:false"}

\* toolArgs.paginate === true || toolArgs.paginate === "true"
ShouldPaginate(args) == args.fields["paginate"] \in {"bool:true", "str:true"}

\* the delete left out
DeletePaginateKept(args) == args

\* delete validatedArgs.paginate
DeletePaginate(args) == [args EXCEPT !.fields["paginate"] = Absent]

\* the cursor the loop starts from
InitialCursor(def, vArgs) ==
    IF Truthy(def.requestBodyContentType) /\ vArgs.requestBody.present
    THEN OrNull(vArgs.requestBody.cursor)
    ELSE OrNull(vArgs.fields["cursor"])

(* -------------------------- request building ---------------------------- *)

Environments == [GONG_ACCESS_KEY : {Absent, "", "AK"}, GONG_SECRET : {Absent, "", "SK"}]

\* a check that looks at the access key only
MissingCredentialsKeyOnly(e) == ~Truthy(e.GONG_ACCESS_KEY)

\* !accessKey || !secret, after process.env.X || ''
MissingCredentials(e) == ~Truthy(e.GONG_ACCESS_KEY) \/ ~Truthy(e.GONG_SECRET)

\* Buffer.from(`${accessKey}:${secret}`).toString('base64')
Base64(key, secret) == <<"base64", key, ":", secret>>

ParamIn(def, k, where) ==
    \E j \in 1..Len(def.executionParameters) :
        def.executionParameters[j].name = k /\ def.executionParameters[j].in = where

\* one pass of the loop body up to the axios call: the request config
BuildRequest(def, vArgs, cursor, paginate, e) ==
    LET pathArgs == [k \in ScalarKeys |-> IF ParamIn(def, k, "path") THEN vArgs.fields[k] ELSE Absent]
        declared == [k \in ScalarKeys |-> IF ParamIn(def, k, "query") THEN vArgs.fields[k] ELSE Absent]
        queryParams == IF Truthy(cursor) /\ HasCursorQuery(def)
                       THEN [declared EXCEPT !["cursor"] = cursor]
                       ELSE declared
        clone == IF Truthy(cursor) /\ paginate
                 THEN [vArgs.requestBody EXCEPT !.cursor = cursor]
                 ELSE vArgs.requestBody
    IN  [method |-> def.method,
         url |-> [path |-> def.pathTemplate, pathArgs |-> pathArgs, query |-> queryParams],
         headers |-> [Accept |-> "application/json",
                      Authorization |-> <<"Basic", Base64(e.GONG_ACCESS_KEY, e.GONG_SECRET)>>,
                      ContentType |-> def.requestBodyContentType],
         data |-> IF Truthy(def.requestBodyContentType) /\ vArgs.requestBody.present
                  THEN clone ELSE NoRequestBody]

(* ------------------------ cursor extraction ----------------------------- *)

\* the probe with the top-level places tried first
ExtractNextCursorTopFirst(data) ==
    LET viaRecords == IF data.kind = "object" /\ data.records.t = "object"
                      THEN data.records.npc ELSE Absent
        viaTop == IF data.kind = "object" THEN data.nextPageCursor ELSE Absent
        viaCursor == IF data.kind = "object" THEN data.cursor ELSE Absent
    IN  IF Truthy(viaTop) THEN viaTop
        ELSE IF Truthy(viaCursor) THEN viaCursor
        ELSE IF Truthy(viaRecords) THEN viaRecords
        ELSE Null

\* response.data?.records?.nextPageCursor || response.data?.nextPageCursor ||
\* response.data?.cursor || null
ExtractNextCursor(data) ==
    LET viaRecords == IF data.kind = "object" /\ data.records.t = "object"
                      THEN data.records.npc ELSE Absent
        viaTop == IF data.kind = "object" THEN data.nextPageCursor ELSE Absent
        viaCursor == IF data.kind = "object" THEN data.cursor ELSE Absent
    IN  IF Truthy(viaRecords) THEN viaRecords
        ELSE IF Truthy(viaTop) THEN viaTop
        ELSE IF Truthy(viaCursor) THEN viaCursor
        ELSE Null

\* n++ on a page counter
Increment(n) == IF n < MaxCount THEN n + 1 ELSE n

\* the paginationInfo update of one page
UpdatePaginationInfo(info, nextCursor, paginate) ==
    LET hasMorePages == Truthy(nextCursor) /\ paginate
    IN  [hasMorePages |-> hasMorePages,
         totalPages |-> IF hasMorePages THEN Increment(info.totalPages) ELSE info.totalPages,
         currentPage |-> IF hasMorePages THEN Increment(info.currentPage) ELSE info.currentPage]

(* ------------------------------- merge ---------------------------------- *)

Ok(d) == [ok |-> TRUE, data |-> d]
Thrown == [ok |-> FALSE, data |-> NullBody]

\* response.data.f && Array.isArray(response.data.f)
IsArrayField(data, f) == data.kind = "object" /\ data[f].t = "array"

\* the recognised field the merge picks: the first that is an array, 0 if none
MergeField(data) ==
    IF \E j \in 1..Len(ArrayFields) : IsArrayField(data, ArrayFields[j])
    THEN CHOOSE j \in 1..Len(ArrayFields) :
            /\ IsArrayField(data, ArrayFields[j])
            /\ \A h \in 1..(j - 1) : ~IsArrayField(data, ArrayFields[h])
    ELSE 0

\* a merge that keeps only the latest page without a recognised array
MergePageLastOther(all, data, nextCursor) ==
    IF Falsy(all) THEN Ok(data)
    ELSE IF data.kind = "null" THEN Thrown
    ELSE IF MergeField(data) # 0
         THEN LET f == ArrayFields[MergeField(data)]
              IN  IF all[f].t = "array"
                  THEN Ok([all EXCEPT ![f] = Arr(all[f].a \o data[f].a),
                                      !.nextPageCursor = nextCursor])
                  ELSE Thrown
    ELSE IF data.kind = "array"
         THEN IF all.kind = "array" THEN Ok(ArrayBody(all.items \o data.items)) ELSE Thrown
    ELSE Ok([all EXCEPT !.additionalPages = <<data>>])

\* a merge that appends every recognised array of the new page
MergePageEveryArray(all, data, nextCursor) ==
    IF Falsy(all) THEN Ok(data)
    ELSE IF data.kind = "null" THEN Thrown
    ELSE IF MergeField(data) # 0
         THEN LET f == ArrayFields[MergeField(data)]
                  joined(g) == IF IsArrayField(data, g) /\ all[g].t = "array"
                               THEN Arr(all[g].a \o data[g].a) ELSE all[g]
              IN  IF all[f].t = "array"
                  THEN Ok([all EXCEPT !.records = joined("records"),
                                      !.calls = joined("calls"),
                                      !.users = joined("users"),
                                      !.results = joined("results"),
                                      !.nextPageCursor = nextCursor])
                  ELSE Thrown
    ELSE IF data.kind = "array"
         THEN IF all.kind = "array" THEN Ok(ArrayBody(all.items \o data.items)) ELSE Thrown
    ELSE Ok([all EXCEPT !.additionalPages = Append(@, data)])

\* a merge that puts the new page's items in front of the accumulated ones
MergePagePrepend(all, data, nextCursor) ==
    IF Falsy(all) THEN Ok(data)
    ELSE IF data.kind = "null" THEN Thrown
    ELSE IF MergeField(data) # 0
         THEN LET f == ArrayFields[MergeField(data)]
              IN  IF all[f].t = "array"
                  THEN Ok([all EXCEPT ![f] = Arr(data[f].a \o all[f].a),
                                      !.nextPageCursor = nextCursor])
                  ELSE Thrown
    ELSE IF data.kind = "array"
         THEN IF all.kind = "array" THEN Ok(ArrayBody(data.items \o all.items)) ELSE Thrown
    ELSE Ok([all EXCEPT !.additionalPages = Append(@, data)])

\* the if (!allData) ... else ... of one page; a TypeError is Thrown
MergePage(all, data, nextCursor) ==
    IF Falsy(all) THEN Ok(data)
    ELSE IF data.kind = "null" THEN Thrown
    ELSE IF MergeField(data) # 0
         THEN LET f == ArrayFields[MergeField(data)]
              IN  IF all[f].t = "array"
                  THEN Ok([all EXCEPT ![f] = Arr(all[f].a \o data[f].a),
                                      !.nextPageCursor = nextCursor])
                  ELSE Thrown
    ELSE IF data.kind = "array"
         THEN IF all.kind = "array" THEN Ok(ArrayBody(all.items \o data.items)) ELSE Thrown
    ELSE Ok([all EXCEPT !.additionalPages = Append(@, data)])

\* allData._paginationInfo = paginationInfo
AttachPaginationInfo(all, info) ==
    IF all.kind \in {"null", "empty"} THEN Thrown
    ELSE Ok([all EXCEPT !._paginationInfo =
                [set |-> TRUE, hasMorePages |-> info.hasMorePages,
                 totalPages |-> info.totalPages, currentPage |-> info.currentPage]])

\* JSON.stringify(allData, null, 2), as the JSON value the text denotes: an
\* array is written as its elements only, its named properties are dropped
JSONstringify(d) == IF d.kind = "array" THEN ArrayBody(d.items) ELSE d

(* --------------------------- error formatter ---------------------------- *)

NoData == BodyOf("none", <<>>, AbsentV, AbsentV, AbsentV, AbsentV, Absent, Absent, Absent)

ErrorOf(kind, message, hasResponse, status, statusText, data, hasRequest, code) ==
    [kind |-> kind, message |-> message, hasResponse |-> hasResponse, status |-> status,
     statusText |-> statusText, data |-> data, hasRequest |-> hasRequest, code |-> code]

ZodError == ErrorOf("ZodError", "invalid arguments", FALSE, Absent, Absent, Absent, FALSE, Absent)
CredentialsError == ErrorOf("Error", "Missing Gong credentials in environment",
                            FALSE, Absent, Absent, Absent, FALSE, Absent)
TypeError == ErrorOf("TypeError", "not iterable or null", FALSE, Absent, Absent, Absent, FALSE, Absent)
\* no error was thrown
NoError == ErrorOf("none", Absent, FALSE, Absent, Absent, Absent, FALSE, Absent)

\* the errors axios may reject with
AxiosErrors ==
    {ErrorOf("AxiosError", "Request failed", TRUE, st, tx, d, TRUE, "ERR_BAD_REQUEST") :
        st \in {"404", "500"}, tx \in {"", "Not Found"}, d \in {Absent, "text", "json"}}
    \cup {ErrorOf("AxiosError", "Network Error", FALSE, Absent, Absent, Absent, TRUE, c) :
        c \in {Absent, "ECONNRESET"}}
    \cup {ErrorOf("AxiosError", "setup", FALSE, Absent, Absent, Absent, FALSE, Absent)}

\* a formatter that looks at error.request before error.response
formatApiErrorRequestFirst(error) ==
    IF error.hasRequest
    THEN <<"API Network Error: No response received from server.">>
         \o (IF Truthy(error.code) THEN <<" (Code: ", error.code, ")">> ELSE <<>>)
    ELSE IF error.hasResponse
    THEN <<"API Error: Status ", error.status, " (",
           IF Truthy(error.statusText) THEN error.statusText ELSE "Status text not available",
           "). ">>
    ELSE <<"API request failed.", "API Request Setup Error: ", error.message>>

formatApiError(error) ==
    IF error.hasResponse
    THEN <<"API Error: Status ", error.status, " (",
           IF Truthy(error.statusText) THEN error.statusText ELSE "Status text not available",
           "). ">>
         \o (IF error.data = Absent THEN <<"No response body received.">>
             ELSE <<"Response: ", error.data>>)
    ELSE IF error.hasRequest
    THEN <<"API Network Error: No response received from server.">>
         \o (IF Truthy(error.code) THEN <<" (Code: ", error.code, ")">> ELSE <<>>)
    ELSE <<"API request failed.", "API Request Setup Error: ", error.message>>

\* a call-tool result; text is the pieces of an error message, or the JSON
\* value a success text denotes
TextResult(parts, json) ==
    [status |-> "returned", content |-> <<[type |-> "text", text |-> [parts |-> parts, json |-> json]]>>]
NoResult == [status |-> "none", content |-> <<>>]
Escaped == [status |-> "thrown", content |-> <<>>]

\* a catch block that handles the two known error classes and rethrows the rest
CatchRethrow(error) ==
    IF error.kind = "ZodError" THEN TextResult(<<"Validation error: ", error.message>>, NoData)
    ELSE IF error.kind = "AxiosError" THEN TextResult(formatApiError(error), NoData)
    ELSE Escaped

\* the catch block of executeApiTool
Catch(error) ==
    IF error.kind = "ZodError" THEN TextResult(<<"Validation error: ", error.message>>, NoData)
    ELSE IF error.kind = "AxiosError" THEN TextResult(formatApiError(error), NoData)
    ELSE TextResult(<<"Unexpected error: ", error.message>>, NoData)

\* a fallback that is z.object({}) without .passthrough(): it keeps no key
getZodSchemaStrictFallback(jsonSchema) ==
    IF jsonSchema.wellFormed THEN jsonSchema
    ELSE [wellFormed |-> TRUE, properties |-> {}, required |-> {}]

\* getZodSchemaFromJsonSchema: the compiled schema, or the permissive fallback
Passthrough == [wellFormed |-> FALSE, properties |-> {}, required |-> {}]
getZodSchemaFromJsonSchema(jsonSchema) ==
    IF jsonSchema.wellFormed THEN jsonSchema ELSE Passthrough

(* ------------------------- inputs of the model -------------------------- *)

\* the cursor string a page k response carries at one of the probed places
CursorNames ==
    [records |-> <<"r1", "r2", "r3", "r4", "r5", "r6">>,
     nextPageCursor |-> <<"n1", "n2", "n3", "n4", "n5", "n6">>,
     cursor |-> <<"c1", "c2", "c3", "c4", "c5", "c6">>]
CursorAt(place, k) == CursorNames[place][((k - 1) % 6) + 1]

BriefFields(missing) ==
    [k \in ScalarKeys |-> IF k \in BriefRequired \ missing THEN "v" ELSE Absent]

\* the argument objects a caller sends to a tool: the tool's own parameters,
\* present or missing, `paginate` in every form, and a top-level `cursor`
ScalarChoices(name) ==
    CASE name = "getv2callsbyid" ->
            {[NoFields EXCEPT !["id"] = id, !["cursor"] = c] : id \in {Absent, "id1"}, c \in {Absent, "c0"}}
      [] name = "getv2users" ->
            {[NoFields EXCEPT !["cursor"] = c] : c \in {Absent, "", "c0"}}
      [] name = "getv2dataprivacydataforemailaddress" ->
            {[NoFields EXCEPT !["emailAddress"] = e, !["cursor"] = c] :
                e \in {Absent, "a@b.c"}, c \in {Absent, "", "c0"}}
      [] name = "getv2askanythinggeneratebrief" ->
            {[BriefFields(m) EXCEPT !["cursor"] = c] :
                m \in {{}, {"brief-name"}, BriefRequired}, c \in {Absent, "c0"}}
      [] OTHER -> {[NoFields EXCEPT !["cursor"] = c] : c \in {Absent, "c0"}}

BodyChoices(name) ==
    IF name \in {"postv2callsextensive", "postv2callstranscript"}
    THEN {NoRequestBody, RequestBody(Absent, Absent)}
            \cup {RequestBody("filter", c) : c \in {Absent, "", "c0"}}
    ELSE {NoRequestBody}

ArgsFor(name) ==
    {ArgsOf([f EXCEPT !["paginate"] = p], rb) :
        f \in ScalarChoices(name), p \in PaginateValues, rb \in BodyChoices(name)}

Calls == UNION {{<<name, args>> : args \in ArgsFor(name)} : name \in ToolNames \cup {"nosuchtool"}}

\* the one invocation the merge is studied on: an auto-paginated user listing
MergeCalls == {<<"getv2users", ArgsOf([NoFields EXCEPT !["paginate"] = "bool:true"], NoRequestBody)>>}

\* the invocations the cursor probe is studied on
ExtractCalls == {<<"getv2users", ArgsOf([NoFields EXCEPT !["paginate"] = p], NoRequestBody)>> :
                    p \in {Absent, "bool:true"}}

\* the bodies the upstream may answer page k with: every kind of body, every
\* single placement of the cursor and the records-and-cursor pair
Bodies(k) ==
    {NullBody, EmptyBody, ArrayBody(ItemsOf(k, "items", 1))}
    \cup {ObjectBody(probe[1], calls, AbsentV, AbsentV, probe[2], probe[3], "req") :
            probe \in {<<AbsentV, Absent, Absent>>,
                       <<Obj(CursorAt("records", k)), Absent, Absent>>,
                       <<AbsentV, CursorAt("nextPageCursor", k), Absent>>,
                       <<AbsentV, Absent, CursorAt("cursor", k)>>,
                       <<Obj(CursorAt("records", k)), Absent, CursorAt("cursor", k)>>},
            calls \in {AbsentV, Arr(ItemsOf(k, "calls", 1))}}

\* the bodies of the cursor probe: every combination of a missing, null,
\* empty or non-empty value at the three probed places
ProbeBodies(k) ==
    {NullBody, EmptyBody, ArrayBody(ItemsOf(k, "items", 1))}
    \cup {ObjectBody(rec, AbsentV, AbsentV, AbsentV, npc, cur, "req") :
            rec \in {AbsentV, Arr(ItemsOf(k, "records", 1)), Obj(Absent), Obj(""),
                     Obj(CursorAt("records", k))},
            npc \in {Absent, Null, "", CursorAt("nextPageCursor", k)},
            cur \in {Absent, "", CursorAt("cursor", k)}}

\* the array-bearing fields of a page under SpecMerge: none, one field with
\* 0..MaxItems items, or two fields with one item each
ArrayChoices(k) ==
    LET none == [f \in {"records", "calls", "users", "results"} |-> AbsentV]
    IN  {none}
        \cup {[none EXCEPT ![ArrayFields[j]] = Arr(ItemsOf(k, ArrayFields[j], n))] :
                j \in 1..Len(ArrayFields), n \in 0..MaxItems}
        \cup {[none EXCEPT ![ArrayFields[j]] = Arr(ItemsOf(k, ArrayFields[j], 1)),
                           ![ArrayFields[j + 1]] = Arr(ItemsOf(k, ArrayFields[j + 1], 1))] :
                j \in 1..(Len(ArrayFields) - 1)}

MergeBodies(k) ==
    {NullBody, EmptyBody, ArrayBody(ItemsOf(k, "items", 1))}
    \cup {ObjectBody(a.records, a.calls, a.users, a.results, npc, Absent, "req") :
            a \in ArrayChoices(k), npc \in {Absent, CursorAt("nextPageCursor", k)}}
    \cup {ObjectBody(Obj(CursorAt("records", k)), a.calls, a.users, a.results, Absent, Absent, "req") :
            a \in {b \in ArrayChoices(k) : b.records = AbsentV}}

(* ------------------------------- state ---------------------------------- *)

InitialPaginationInfo == [hasMorePages |-> FALSE, totalPages |-> 1, currentPage |-> 1]

\* the server after construction: the process environment is fixed, no
\* invocation of I has started
InitOn(I, Envs) ==
    /\ env \in Envs
    /\ pc = [i \in I |-> "idle"]
    /\ toolName = [i \in I |-> Absent]
    /\ definition = [i \in I |-> NoDefinition]
    /\ caught = [i \in I |-> NoError]
    /\ toolArgs = [i \in I |-> NoArgs]
    /\ validatedArgs = [i \in I |-> NoArgs]
    /\ shouldPaginate = [i \in I |-> FALSE]
    /\ allData = [i \in I |-> NullBody]
    /\ currentCursor = [i \in I |-> Null]
    /\ paginationInfo = [i \in I |-> InitialPaginationInfo]
    /\ requests = [i \in I |-> <<>>]
    /\ pages = [i \in I |-> <<>>]
    /\ cursors = [i \in I |-> <<>>]
    /\ result = [i \in I |-> NoResult]

Invocations == DOMAIN pc

\* the history of an invocation's requests and responses: the first MaxLog
\* entries are kept
Log(history, entry) == IF Len(history) < MaxLog THEN Append(history, entry) ELSE history

\* return: the handler's promise resolves with r
Return(i, r) ==
    /\ result' = [result EXCEPT ![i] = r]
    /\ pc' = [pc EXCEPT ![i] = "done"]
    /\ UNCHANGED caught

\* throw inside the try block: the catch block turns error into the result
Throw(i, error) ==
    /\ caught' = [caught EXCEPT ![i] = error]
    /\ result' = [result EXCEPT ![i] = Catch(error)]
    /\ pc' = [pc EXCEPT ![i] = "done"]

\* validatedArgs.requestBody is the very object the caller passed as
\* toolArgs.requestBody: the fallback z.object({}).passthrough() copies the
\* value of an undeclared key by reference, a compiled object schema builds a
\* new object for a declared one
SharesRequestBody(def) == ~getZodSchemaFromJsonSchema(def.inputSchema).wellFormed

\* a request builder that writes the cursor into validatedArgs.requestBody itself
RequestBodyWrittenInPlace(def, vArgs, cursor, paginate) ==
    IF /\ Truthy(def.requestBodyContentType) /\ vArgs.requestBody.present
       /\ Truthy(cursor) /\ paginate
    THEN [vArgs.requestBody EXCEPT !.cursor = cursor]
    ELSE vArgs.requestBody

\* validatedArgs.requestBody once a request is built: the cursor went to the
\* clone {...validatedArgs.requestBody}, the object itself is as it was
RequestBodyAfterBuild(def, vArgs, cursor, paginate) == vArgs.requestBody

\* the top of one loop pass: build the request and hand it to axios, or throw
\* when the credentials are missing. args and vArgs are the caller's argument
\* object and the validated copy as they stand before the pass.
IssueRequest(i, def, args, vArgs, cursor, paginate) ==
    IF MissingCredentials(env)
    THEN /\ Throw(i, CredentialsError)
         /\ toolArgs' = [toolArgs EXCEPT ![i] = args]
         /\ validatedArgs' = [validatedArgs EXCEPT ![i] = vArgs]
         /\ UNCHANGED requests
    ELSE LET body == RequestBodyAfterBuild(def, vArgs, cursor, paginate)
         IN  /\ requests' = [requests EXCEPT ![i] =
                                Log(@, BuildRequest(def, vArgs, cursor, paginate, env))]
             /\ validatedArgs' = [validatedArgs EXCEPT ![i] = [vArgs EXCEPT !.requestBody = body]]
             /\ toolArgs' = [toolArgs EXCEPT ![i] =
                                IF SharesRequestBody(def) THEN [args EXCEPT !.requestBody = body]
                                ELSE args]
             /\ pc' = [pc EXCEPT ![i] = "await"]
             /\ UNCHANGED <<result, caught>>

\* the CallToolRequest handler and executeApiTool up to its first await
executeApiTool(i, name, def, args) ==
    /\ pc[i] = "idle"
    /\ toolName' = [toolName EXCEPT ![i] = name]
    /\ definition' = [definition EXCEPT ![i] = def]
    /\ UNCHANGED <<env, allData, paginationInfo, pages, cursors>>
    /\ LET zodSchema == getZodSchemaFromJsonSchema(def.inputSchema)
       IN  IF ~SchemaAccepts(zodSchema, args)
           THEN /\ Throw(i, ZodError)
                /\ toolArgs' = [toolArgs EXCEPT ![i] = args]
                /\ UNCHANGED <<validatedArgs, shouldPaginate, currentCursor, requests>>
           ELSE LET vArgs == DeletePaginate(SchemaOutput(zodSchema, args))
                    cursor == InitialCursor(def, vArgs)
                IN  /\ shouldPaginate' = [shouldPaginate EXCEPT ![i] = ShouldPaginate(args)]
                    /\ currentCursor' = [currentCursor EXCEPT ![i] = cursor]
                    /\ IssueRequest(i, def, args, vArgs, cursor, ShouldPaginate(args))

\* the call-tool handler: look the operation up and run it, or answer that
\* the tool is unknown
CallTool(i, name, args) ==
    IF name \in ToolNames
    THEN executeApiTool(i, name, toolDefinitionMap[name], args)
    ELSE /\ pc[i] = "idle"
         /\ toolName' = [toolName EXCEPT ![i] = name]
         /\ toolArgs' = [toolArgs EXCEPT ![i] = args]
         /\ Return(i, TextResult(<<"Error: Unknown tool requested: ", name>>, NoData))
         /\ UNCHANGED <<env, definition, validatedArgs, shouldPaginate, allData, currentCursor,
                        paginationInfo, requests, pages, cursors>>

\* an accumulator kept in one module-level variable for all invocations
AccumulatorShared(i) == allData[CHOOSE j \in Invocations : \A h \in Invocations : j <= h]

\* allData, a local of the call: the pages invocation i has merged so far
Accumulator(i) == allData[i]

\* axios resolves with a response whose body is data: the rest of the loop
\* pass, then either the next pass up to its await or the return
Respond(i, data) ==
    /\ pc[i] = "await"
    /\ LET def == definition[i]
           nextCursor == ExtractNextCursor(data)
           info == UpdatePaginationInfo(paginationInfo[i], nextCursor, shouldPaginate[i])
           merged == MergePage(Accumulator(i), data, nextCursor)
       IN  /\ pages' = [pages EXCEPT ![i] = Log(@, data)]
           /\ cursors' = [cursors EXCEPT ![i] = Log(@, nextCursor)]
           /\ paginationInfo' = [paginationInfo EXCEPT ![i] = info]
           /\ UNCHANGED <<env, toolName, definition, shouldPaginate>>
           /\ IF ~merged.ok
              THEN /\ Throw(i, TypeError)
                   /\ UNCHANGED <<toolArgs, validatedArgs, allData, currentCursor, requests>>
              ELSE /\ currentCursor' = [currentCursor EXCEPT ![i] = nextCursor]
                   /\ IF Truthy(nextCursor) /\ shouldPaginate[i]
                      THEN /\ allData' = [allData EXCEPT ![i] = merged.data]
                           /\ IssueRequest(i, def, toolArgs[i], validatedArgs[i], nextCursor,
                                           shouldPaginate[i])
                      ELSE LET final == AttachPaginationInfo(merged.data, info)
                           IN  /\ UNCHANGED <<toolArgs, validatedArgs, requests>>
                               /\ IF final.ok
                                  THEN /\ allData' = [allData EXCEPT ![i] = final.data]
                                       /\ Return(i, TextResult(<<>>, JSONstringify(final.data)))
                                  ELSE /\ allData' = [allData EXCEPT ![i] = merged.data]
                                       /\ Throw(i, TypeError)

\* a handler that issues the failed request once more instead of returning
FailRetry(i, error) ==
    /\ pc[i] = "await"
    /\ Len(requests[i]) <= Len(pages[i]) + 1
    /\ requests' = [requests EXCEPT ![i] = Log(@, @[Len(@)])]
    /\ UNCHANGED <<env, pc, toolName, definition, toolArgs, validatedArgs, shouldPaginate,
                   allData, currentCursor, paginationInfo, pages, cursors, caught, result>>

\* a handler that notes the error and issues the failed request again, without
\* a limit on the retries
FailRetryForever(i, error) ==
    /\ pc[i] = "await"
    /\ caught' = [caught EXCEPT ![i] = error]
    /\ requests' = [requests EXCEPT ![i] = Log(@, @[Len(@)])]
    /\ UNCHANGED <<env, pc, toolName, definition, toolArgs, validatedArgs, shouldPaginate,
                   allData, currentCursor, paginationInfo, pages, cursors, result>>

\* axios rejects with error: the catch block formats it and returns
Fail(i, error) ==
    /\ pc[i] = "await"
    /\ Throw(i, error)
    /\ UNCHANGED <<env, toolName, definition, toolArgs, validatedArgs, shouldPaginate, allData,
                   currentCursor, paginationInfo, requests, pages, cursors>>

\* the bodies page k may be answered with, when at most max pages are fetched:
\* the last page of an auto-paginated invocation carries no cursor
Answers(i, universe, max) ==
    {d \in universe :
        (shouldPaginate[i] /\ Len(pages[i]) + 1 >= max) => ~Truthy(ExtractNextCursor(d))}

(* --------------------------- OAuth2 tokens ------------------------------ *)

\* expires_in assumed when the token response states none, in seconds
DefaultExpiresIn == 3600
\* milliseconds per second
MsPerSecond == 1000
\* a token is dropped from the cache this many milliseconds early
ExpiryMargin == 60000

\* the instants Date.now() returns, in milliseconds
ClockValues == {0, 30000, 60000, 3540000, 3600000}

\* the security schemes acquireOAuth2Token is called for, by name, each with
\* the token URL of the two flows the code looks at: both flows, the
\* password flow alone, no supported flow
SchemeNames == {"oauthA", "oauthB", "oauthC"}
Schemes ==
    [n \in SchemeNames |->
        [flows |-> [clientCredentials |-> IF n = "oauthA" THEN "https://cc/token" ELSE Absent,
                    password |-> IF n = "oauthC" THEN Absent ELSE "https://pw/token"]]]

\* process.env of a server that is configured for OAuth2
OAuthEnvironments ==
    [GONG_ACCESS_KEY : {"AK"}, GONG_SECRET : {"SK"},
     OAUTH_CLIENT_ID_SCHEMENAME : {"", "cid"},
     OAUTH_CLIENT_SECRET_SCHEMENAME : {Absent, "sec"},
     OAUTH_SCOPES_SCHEMENAME : {Absent, "read"}]

\* `${schemeName}_${clientId}`
CacheKey(schemeName, clientId) == <<schemeName, "_", clientId>>
CacheKeys == {CacheKey(n, c) : n \in SchemeNames, c \in {"cid"}}

NoEntry == [set |-> FALSE, token |-> Absent, expiresAt |-> 0]
TokenCacheEntry(token, expiresAt) == [set |-> TRUE, token |-> token, expiresAt |-> expiresAt]

\* global.__oauthTokenCache: undefined, or an object from cache keys to entries
UndefinedCache == [defined |-> FALSE, entries |-> [k \in CacheKeys |-> NoEntry]]
EmptyCache == [defined |-> TRUE, entries |-> [k \in CacheKeys |-> NoEntry]]

\* a cache test with the comparison turned around
CachedTokenValidInverted(cachedToken, now) == cachedToken.set /\ cachedToken.expiresAt < now

\* cachedToken && cachedToken.expiresAt > now
CachedTokenValid(cachedToken, now) == cachedToken.set /\ cachedToken.expiresAt > now

\* the token URL of the first supported flow, Absent when there is none
TokenUrl(scheme) ==
    IF Truthy(scheme.flows.clientCredentials) THEN scheme.flows.clientCredentials
    ELSE IF Truthy(scheme.flows.password) THEN scheme.flows.password
    ELSE Absent

\* response.data.expires_in || 3600
ExpiresIn(data) ==
    IF ~data.stated \/ data.expires_in = 0 THEN DefaultExpiresIn ELSE data.expires_in

\* now + (expiresIn * 1000) - 60000
ExpiresAt(now, expiresIn) == now + (expiresIn * MsPerSecond) - ExpiryMargin

\* the token request of acquireOAuth2Token
TokenRequest(tokenUrl, clientId, clientSecret, scopes) ==
    [method |-> "POST", url |-> tokenUrl,
     headers |-> [ContentType |-> "application/x-www-form-urlencoded",
                  Authorization |-> <<"Basic", Base64(clientId, clientSecret)>>],
     data |-> [grant_type |-> "client_credentials",
               scope |-> IF Truthy(scopes) THEN scopes ELSE Absent]]

\* the bodies a token endpoint may answer with: an access_token or none, and
\* an expires_in in seconds when the body states one
TokenBodies ==
    {[access_token |-> t, stated |-> FALSE, expires_in |-> 0] : t \in {Absent, "", "t1", "t2"}}
    \cup [access_token : {"t1", "t2"}, stated : {TRUE}, expires_in : {0, 60, 120}]

\* what a call has heard from the token endpoint: nothing yet, a transport
\* error, or a response with its body
NoAnswer == [kind |-> "none", data |-> [access_token |-> Absent, stated |-> FALSE, expires_in |-> 0]]
ErrorAnswer == [NoAnswer EXCEPT !.kind = "error"]
ResponseAnswer(data) == [kind |-> "response", data |-> data]

\* one call of acquireOAuth2Token: where it stands, its arguments and locals,
\* the value it returned, and (for the properties) the calls that had
\* returned when it began, the answer of the token endpoint and the instant
\* it arrived
IdleAcquire ==
    [pc |-> "idle", schemeName |-> Absent, cacheKey |-> <<>>, now |-> 0,
     exchanged |-> FALSE, expiresIn |-> 0, issuedAt |-> 0, after |-> {}, returned |-> Absent,
     answer |-> NoAnswer]

InitAcquirers(A) ==
    /\ tokenCache = UndefinedCache
    /\ clock = 0
    /\ acquire = [a \in A |-> IdleAcquire]
    /\ tokenRequests = <<>>

Acquirers == DOMAIN acquire

\* acquireOAuth2Token(schemeName, scheme) up to its return or its await
acquireOAuth2Token(a, schemeName, scheme) ==
    /\ acquire[a].pc = "idle"
    /\ UNCHANGED clock
    /\ LET clientId == env.OAUTH_CLIENT_ID_SCHEMENAME
           clientSecret == env.OAUTH_CLIENT_SECRET_SCHEMENAME
           scopes == env.OAUTH_SCOPES_SCHEMENAME
           begun == [acquire[a] EXCEPT !.schemeName = schemeName,
                                       !.after = {b \in Acquirers : acquire[b].pc = "done"}]
       IN  IF ~Truthy(clientId) \/ ~Truthy(clientSecret)
           THEN /\ acquire' = [acquire EXCEPT ![a] = [begun EXCEPT !.pc = "done", !.returned = Null]]
                /\ UNCHANGED <<tokenCache, tokenRequests>>
           ELSE LET cacheKey == CacheKey(schemeName, clientId)
                    cachedToken == tokenCache.entries[cacheKey]
                    now == clock
                    looked == [begun EXCEPT !.cacheKey = cacheKey, !.now = now]
                IN  /\ tokenCache' = [tokenCache EXCEPT !.defined = TRUE]
                    /\ IF CachedTokenValid(cachedToken, now)
                       THEN /\ acquire' = [acquire EXCEPT ![a] =
                                              [looked EXCEPT !.pc = "done", !.returned = cachedToken.token]]
                            /\ UNCHANGED tokenRequests
                       ELSE IF TokenUrl(scheme) = Absent
                       THEN /\ acquire' = [acquire EXCEPT ![a] =
                                              [looked EXCEPT !.pc = "done", !.returned = Null]]
                            /\ UNCHANGED tokenRequests
                       ELSE /\ acquire' = [acquire EXCEPT ![a] = [looked EXCEPT !.pc = "await"]]
                            /\ tokenRequests' = Append(tokenRequests,
                                  [by |-> a, request |-> TokenRequest(TokenUrl(scheme), clientId,
                                                                       clientSecret, scopes)])

\* a response handler that updates an existing cache entry field by field,
\* replacing its token and keeping its expiry
TokenRespondFieldwise(a, data) ==
    /\ acquire[a].pc = "await"
    /\ UNCHANGED <<clock, tokenRequests>>
    /\ IF Truthy(data.access_token)
       THEN LET expiresIn == ExpiresIn(data)
                old == tokenCache.entries[acquire[a].cacheKey]
            IN  /\ tokenCache' = [tokenCache EXCEPT !.entries[acquire[a].cacheKey] =
                                     IF old.set THEN TokenCacheEntry(data.access_token, old.expiresAt)
                                     ELSE TokenCacheEntry(data.access_token,
                                                          ExpiresAt(acquire[a].now, expiresIn))]
                /\ acquire' = [acquire EXCEPT ![a].pc = "done", ![a].returned = data.access_token,
                                              ![a].exchanged = TRUE, ![a].expiresIn = expiresIn,
                                              ![a].issuedAt = clock,
                                              ![a].answer = ResponseAnswer(data)]
       ELSE /\ acquire' = [acquire EXCEPT ![a].pc = "done", ![a].returned = Null,
                                          ![a].answer = ResponseAnswer(data)]
            /\ UNCHANGED tokenCache

\* the token endpoint answers with body data: cache the token and return it,
\* or return null when the body holds no access_token
TokenRespond(a, data) ==
    /\ acquire[a].pc = "await"
    /\ UNCHANGED <<clock, tokenRequests>>
    /\ IF Truthy(data.access_token)
       THEN LET expiresIn == ExpiresIn(data)
            IN  /\ tokenCache' = [tokenCache EXCEPT !.entries[acquire[a].cacheKey] =
                                     TokenCacheEntry(data.access_token, ExpiresAt(acquire[a].now, expiresIn))]
                /\ acquire' = [acquire EXCEPT ![a].pc = "done", ![a].returned = data.access_token,
                                              ![a].exchanged = TRUE, ![a].expiresIn = expiresIn,
                                              ![a].issuedAt = clock,
                                              ![a].answer = ResponseAnswer(data)]
       ELSE /\ acquire' = [acquire EXCEPT ![a].pc = "done", ![a].returned = Null,
                                          ![a].answer = ResponseAnswer(data)]
            /\ UNCHANGED tokenCache

\* a catch block that repeats the token request once before giving up
TokenFailRetry(a) ==
    /\ acquire[a].pc = "await"
    /\ UNCHANGED <<tokenCache, clock>>
    /\ LET mine == SelectSeq(tokenRequests, LAMBDA r : r.by = a)
       IN  IF Len(mine) < 2
           THEN /\ tokenRequests' = Append(tokenRequests, mine[1])
                /\ UNCHANGED acquire
           ELSE /\ acquire' = [acquire EXCEPT ![a].pc = "done", ![a].returned = Null,
                                             ![a].answer = ErrorAnswer]
                /\ UNCHANGED tokenRequests

\* the token request fails: the catch block logs and returns null
TokenFail(a) ==
    /\ acquire[a].pc = "await"
    /\ acquire' = [acquire EXCEPT ![a].pc = "done", ![a].returned = Null,
                                  ![a].answer = ErrorAnswer]
    /\ UNCHANGED <<tokenCache, clock, tokenRequests>>

\* time passes
Tick(t) ==
    /\ t \in ClockValues /\ t > clock
    /\ clock' = t
    /\ UNCHANGED <<tokenCache, acquire, tokenRequests>>

(* --------------------------- specifications ----------------------------- *)

Init == InitOn({1}, Environments) /\ InitAcquirers({})

Next ==
    /\ UNCHANGED oauthVars
    /\ \E i \in Invocations :
        \/ \E c \in Calls : CallTool(i, c[1], c[2])
        \/ \E d \in Answers(i, Bodies(Len(pages[i]) + 1), MaxPages) : Respond(i, d)
        \/ \E e \in AxiosErrors : Fail(i, e)

Spec == Init /\ [][Next]_vars

\* the merge on its own: one auto-paginated listing, credentials configured,
\* pages of every array shape
InitMerge == InitOn({1}, {[GONG_ACCESS_KEY |-> "AK", GONG_SECRET |-> "SK"]}) /\ InitAcquirers({})

NextMerge ==
    /\ UNCHANGED oauthVars
    /\ \E i \in Invocations :
        \/ \E c \in MergeCalls : CallTool(i, c[1], c[2])
        \/ \E d \in Answers(i, MergeBodies(Len(pages[i]) + 1), MaxMergePages) : Respond(i, d)
        \/ \E e \in AxiosErrors : Fail(i, e)

SpecMerge == InitMerge /\ [][NextMerge]_vars

\* the cursor probe on its own: every combination of values at the probed places
NextExtract ==
    /\ UNCHANGED oauthVars
    /\ \E i \in Invocations :
        \/ \E c \in ExtractCalls : CallTool(i, c[1], c[2])
        \/ \E d \in Answers(i, ProbeBodies(Len(pages[i]) + 1), MaxProbePages) : Respond(i, d)
        \/ \E e \in AxiosErrors : Fail(i, e)

SpecExtract == InitMerge /\ [][NextExtract]_vars

\* the loop under an upstream that is free to answer every page with a
\* cursor: a user listing, pages without users, two cursors. Every request
\* completes, with a response or with an error.
LiveCalls == {<<"getv2users", ArgsOf([NoFields EXCEPT !["paginate"] = p], NoRequestBody)>> :
                p \in {Absent, "bool:true"}}

LiveBodies ==
    {NullBody}
    \cup {ObjectBody(AbsentV, AbsentV, Arr(<<>>), AbsentV, npc, Absent, "req") :
            npc \in {Absent, "n1", "n2"}}

LiveInvocations == {1}

Completes(i) ==
    /\ UNCHANGED oauthVars
    /\ \/ \E d \in LiveBodies : Respond(i, d)
       \/ \E e \in AxiosErrors : Fail(i, e)

NextLive ==
    \/ /\ UNCHANGED oauthVars
       /\ \E i \in Invocations : \E c \in LiveCalls : CallTool(i, c[1], c[2])
    \/ \E i \in Invocations : Completes(i)

SpecLive ==
    /\ InitOn(LiveInvocations, {[GONG_ACCESS_KEY |-> "AK", GONG_SECRET |-> "SK"]})
    /\ InitAcquirers({})
    /\ [][NextLive]_vars
    /\ \A i \in LiveInvocations : WF_vars(Completes(i))

\* executeApiTool applied to operation descriptors the catalog does not hold:
\* an input schema that is not an object, one that fails to compile, an
\* operation secured by an OAuth2 scheme, and an operation with a JSON body
\* that also declares a `cursor` query parameter
NotAnObject == [wellFormed |-> FALSE, properties |-> {}, required |-> {}]
FailsCompilation(jsonSchema) == [jsonSchema EXCEPT !.wellFormed = FALSE]

Descriptors ==
    {[toolDefinitionMap[n] EXCEPT !.inputSchema = NotAnObject] :
        n \in {"getv2callsbyid", "getv2users"}}
    \cup {[toolDefinitionMap[n] EXCEPT !.inputSchema = FailsCompilation(@)] :
        n \in {"postv2callsextensive", "getv2users"}}
    \cup {[toolDefinitionMap["getv2users"] EXCEPT !.securityRequirements = <<n>>] :
        n \in SchemeNames}
    \cup {[toolDefinitionMap["postv2callsextensive"] EXCEPT
                !.executionParameters = QueryOf(<<"cursor">>),
                !.inputSchema.properties = @ \cup {"cursor"}]}

DescriptorEnvironments ==
    [GONG_ACCESS_KEY : {Absent, "AK"}, GONG_SECRET : {"SK"},
     OAUTH_CLIENT_ID_SCHEMENAME : {Absent, "cid"},
     OAUTH_CLIENT_SECRET_SCHEMENAME : {"sec"},
     OAUTH_SCOPES_SCHEMENAME : {Absent}]

InitDescriptors == InitOn({1}, DescriptorEnvironments) /\ InitAcquirers({})

NextDescriptors ==
    /\ UNCHANGED oauthVars
    /\ \E i \in Invocations :
        \/ \E def \in Descriptors : \E args \in ArgsFor(def.name) :
              executeApiTool(i, def.name, def, args)
        \/ \E d \in Answers(i, Bodies(Len(pages[i]) + 1), MaxPages) : Respond(i, d)
        \/ \E e \in AxiosErrors : Fail(i, e)

SpecDescriptors == InitDescriptors /\ [][NextDescriptors]_vars

\* the token provider on its own: two calls of acquireOAuth2Token, one after
\* the other or overlapping, while time passes
InitOAuth == InitOn({}, OAuthEnvironments) /\ InitAcquirers({1, 2})

NextOAuth ==
    /\ UNCHANGED toolVars
    /\ \/ \E a \in Acquirers, n \in SchemeNames : acquireOAuth2Token(a, n, Schemes[n])
       \/ \E a \in Acquirers, d \in TokenBodies : TokenRespond(a, d)
       \/ \E a \in Acquirers : TokenFail(a)
       \/ \E t \in ClockValues : Tick(t)

SpecOAuth == InitOAuth /\ [][NextOAuth]_vars

\* two invocations in flight at once: a user listing and a call search, each
\* with or without auto-pagination, answered in any interleaving with pages
\* of users or calls, with or without a cursor, a null body, an array, or
\* a network error
MaxConcurrentPages == 2

ConcurrentCalls ==
    {<<"getv2users", ArgsOf([NoFields EXCEPT !["paginate"] = p], NoRequestBody)>> :
        p \in {Absent, "bool:true"}}
    \cup {<<"postv2callsextensive",
            ArgsOf([NoFields EXCEPT !["paginate"] = "bool:true"], RequestBody("filter", c))>> :
        c \in {Absent, "c0"}}

ConcurrentBodies(k) ==
    {NullBody, ArrayBody(ItemsOf(k, "items", 1))}
    \cup {ObjectBody(AbsentV, AbsentV, Arr(ItemsOf(k, "users", 1)), AbsentV, npc, Absent, "req") :
            npc \in {Absent, CursorAt("nextPageCursor", k)}}
    \cup {ObjectBody(rec, Arr(ItemsOf(k, "calls", 1)), AbsentV, AbsentV, Absent, Absent, "req") :
            rec \in {AbsentV, Obj(CursorAt("records", k))}}

ConcurrentErrors == {e \in AxiosErrors : e.message = "Network Error" /\ e.code = "ECONNRESET"}

InitConcurrent ==
    InitOn({1, 2}, {[GONG_ACCESS_KEY |-> "AK", GONG_SECRET |-> "SK"]}) /\ InitAcquirers({})

NextConcurrent ==
    /\ UNCHANGED oauthVars
    /\ \E i \in Invocations :
        \/ \E c \in ConcurrentCalls : CallTool(i, c[1], c[2])
        \/ \E d \in Answers(i, ConcurrentBodies(Len(pages[i]) + 1), MaxConcurrentPages) :
              Respond(i, d)
        \/ \E e \in ConcurrentErrors : Fail(i, e)

SpecConcurrent == InitConcurrent /\ [][NextConcurrent]_vars

(* ------------------------------ properties ------------------------------ *)

Started(i) == pc[i] # "idle"
Done(i) == pc[i] = "done"
KnownTool(i) == toolName[i] \in ToolNames
Definition(i) == definition[i]
Text(i) == result[i].content[1].text

\* the invocation returned the JSON text of its accumulated result
Succeeded(i) == Done(i) /\ result[i].status = "returned" /\ Text(i).parts = <<>>

\* every request of the invocation was answered with a response
AllAnswered(i) == Len(pages[i]) = Len(requests[i]) /\ Len(pages[i]) >= 1

\* the HTTP request of the last page failed
RequestFailed(i) == Done(i) /\ Len(requests[i]) = Len(pages[i]) + 1

\* the caller left `paginate` out or passed false
NotPaginated(i) == toolArgs[i].fields["paginate"] \in {Absent, "bool:false"}

\* the arguments violate the operation's input schema: a required key is
\* missing, `paginate` is not a boolean, or the body lacks its filter
InvalidArguments(i) ==
    LET schema == Definition(i).inputSchema
        args == toolArgs[i]
    IN  \/ \E k \in schema.required : k \notin KeysOf(args)
        \/ "paginate" \in schema.properties /\ args.fields["paginate"] \in {"str:true", "str:false"}
        \/ "requestBody" \in schema.properties /\ args.requestBody.present
              /\ args.requestBody.filter = Absent

\* C1: an invocation whose `paginate` is absent or false, and that reaches the
\* network (known operation, valid arguments, credentials configured), issues
\* exactly one HTTP request whatever the response holds, a cursor included;
\* no such invocation ever issues a second one.
C1_OneRequestWhenNotPaginated ==
    \A i \in Invocations :
        NotPaginated(i) =>
            /\ Len(requests[i]) <= 1
            /\ (Started(i) /\ KnownTool(i) /\ ~InvalidArguments(i) /\ ~MissingCredentials(env))
                  => Len(requests[i]) = 1

C1_Witness ==
    \E i \in Invocations :
        /\ Succeeded(i) /\ NotPaginated(i)
        /\ Len(pages[i]) = 1 /\ Truthy(cursors[i][1])
        /\ Len(requests[i]) = 1

BodyOperation(def) == Truthy(def.requestBodyContentType)

\* the cursor a request carries: in its body for a body operation, in its
\* query string otherwise
CarriedCursor(def, req) ==
    IF BodyOperation(def) THEN req.data.cursor ELSE req.url.query["cursor"]

\* the cursor the caller supplied, in the validated arguments
SuppliedCursor(def, vArgs) ==
    IF BodyOperation(def) THEN vArgs.requestBody.cursor ELSE vArgs.fields["cursor"]

\* C2: with paginate = true the first request carries the caller-supplied
\* cursor, request k+1 is issued if and only if response k yielded a cursor,
\* and it carries exactly that cursor.
C2_CursorChain ==
    \A i \in Invocations :
        (toolArgs[i].fields["paginate"] = "bool:true" /\ Len(requests[i]) >= 1) =>
            /\ CarriedCursor(Definition(i), requests[i][1])
                  = SuppliedCursor(Definition(i), validatedArgs[i])
            /\ \A k \in 1..Len(pages[i]) :
                  /\ (Len(requests[i]) >= k + 1) <=> (cursors[i][k] # Null)
                  /\ (Len(requests[i]) >= k + 1)
                        => CarriedCursor(Definition(i), requests[i][k + 1]) = cursors[i][k]

RECURSIVE ConcatField(_, _)
\* the arrays the pages ps carry under field f, joined in fetch order
ConcatField(ps, f) ==
    IF ps = <<>> THEN <<>>
    ELSE ConcatField(SubSeq(ps, 1, Len(ps) - 1), f) \o ps[Len(ps)][f].a

RECURSIVE SumField(_, _)
SumField(ps, f) ==
    IF ps = <<>> THEN 0
    ELSE SumField(SubSeq(ps, 1, Len(ps) - 1), f) + Len(ps[Len(ps)][f].a)

RecognisedFields == {ArrayFields[j] : j \in 1..Len(ArrayFields)}

\* the place of a recognised field in the merge order
MergeOrder(f) == CHOOSE j \in 1..Len(ArrayFields) : ArrayFields[j] = f

\* every page fetched so far carries its items as an array under f: f is an
\* array there and no recognised field before f in the merge order is one
UniformPages(i, f) ==
    /\ Len(pages[i]) >= 1
    /\ \A k \in 1..Len(pages[i]) :
          /\ pages[i][k].kind = "object" /\ pages[i][k][f].t = "array"
          /\ \A h \in 1..(MergeOrder(f) - 1) : pages[i][k][ArrayFields[h]].t # "array"

\* C3: in an auto-paginated invocation whose pages all carry their items as an
\* array under the same recognised field F (the first array among records,
\* calls, users, results on every page), the accumulated F is at every
\* moment the concatenation of the pages' arrays in fetch order, and the
\* result returned once every request was answered has that F (its length the
\* sum of the page lengths), totalPages = the number of pages and
\* hasMorePages = false.
C3_MergeIsConcatenation ==
    \A i \in Invocations : \A f \in RecognisedFields :
        (shouldPaginate[i] /\ UniformPages(i, f)) =>
            /\ allData[i][f].a = ConcatField(pages[i], f)
            /\ (Done(i) /\ AllAnswered(i)) =>
                  /\ Succeeded(i)
                  /\ Text(i).json[f] = Arr(ConcatField(pages[i], f))
                  /\ Len(Text(i).json[f].a) = SumField(pages[i], f)
                  /\ Text(i).json._paginationInfo.set
                  /\ Text(i).json._paginationInfo.totalPages = Len(pages[i])
                  /\ Text(i).json._paginationInfo.hasMorePages = FALSE

C3_Witness ==
    \E i \in Invocations :
        /\ Succeeded(i) /\ shouldPaginate[i] /\ UniformPages(i, "calls")
        /\ Len(pages[i]) = 3
        /\ Len(pages[i][1].calls.a) = 2 /\ Len(pages[i][2].calls.a) = 2
        /\ Len(pages[i][3].calls.a) = 1
        /\ Len(Text(i).json.calls.a) = 5
        /\ Text(i).json._paginationInfo.totalPages = 3
        /\ ~Text(i).json._paginationInfo.hasMorePages

\* the values at the three probed places of a body, in probing order
ProbedValues(d) ==
    IF d.kind # "object" THEN <<Absent, Absent, Absent>>
    ELSE <<IF d.records.t = "object" THEN d.records.npc ELSE Absent,
           d.nextPageCursor, d.cursor>>

\* a cursor is present at a place when a non-empty string is there
PresentAt(d) == {j \in 1..3 : ProbedValues(d)[j] \notin {Absent, Null, ""}}

FirstPresent(d) ==
    IF PresentAt(d) = {} THEN Null
    ELSE ProbedValues(d)[CHOOSE j \in PresentAt(d) : \A h \in PresentAt(d) : j <= h]

\* C4: the cursor extracted from every response is the first value present
\* (a non-empty string) in the order records.nextPageCursor, nextPageCursor,
\* cursor, and null when none is; a response with both records.nextPageCursor
\* and a top-level cursor yields records.nextPageCursor.
C4_ProbeOrder ==
    \A i \in Invocations : \A k \in 1..Len(pages[i]) :
        /\ cursors[i][k] = FirstPresent(pages[i][k])
        /\ (1 \in PresentAt(pages[i][k]) /\ 3 \in PresentAt(pages[i][k]))
              => cursors[i][k] = pages[i][k].records.npc

C4_Witness ==
    \E i \in Invocations :
        /\ Len(pages[i]) >= 1
        /\ PresentAt(pages[i][1]) = {1, 3}
        /\ pages[i][1].nextPageCursor = ""
        /\ cursors[i][1] = pages[i][1].records.npc
        /\ cursors[i][1] # pages[i][1].cursor

\* C5: when the arguments fail validation the invocation returns a text that
\* starts with "Validation error: " and has issued no HTTP request.
C5_ValidationErrorNoRequest ==
    \A i \in Invocations :
        (Started(i) /\ KnownTool(i) /\ InvalidArguments(i)) =>
            /\ Done(i)
            /\ result[i].status = "returned"
            /\ Text(i).parts[1] = "Validation error: "
            /\ requests[i] = <<>>

C5_Witness ==
    \E i \in Invocations :
        /\ Done(i) /\ toolName[i] = "postv2callsextensive"
        /\ toolArgs[i].requestBody.present /\ toolArgs[i].requestBody.filter = Absent
        /\ ~MissingCredentials(env)
        /\ Text(i).parts[1] = "Validation error: "
        /\ requests[i] = <<>>

ApiErrorLabels == {"API Error: Status ", "API Network Error: No response received from server.",
                   "API request failed."}

\* C6: when the HTTP request of a page of an auto-paginated invocation fails
\* (the awaited request yields no response), the invocation issues no further
\* request, neither a retry nor the next page, and returns the formatted
\* error alone, with none of the merged data; nothing is requested afterwards.
C6_FailureAborts ==
    [][\A i \in Invocations :
          /\ (/\ shouldPaginate[i] /\ pc[i] = "await" /\ pages'[i] = pages[i]
              /\ (pc'[i] # pc[i] \/ requests'[i] # requests[i])) =>
                /\ requests'[i] = requests[i]
                /\ pc'[i] = "done"
                /\ result'[i].status = "returned"
                /\ result'[i].content[1].text.parts[1] \in ApiErrorLabels
                /\ result'[i].content[1].text.json = NoData
          /\ Done(i) => requests'[i] = requests[i]]_vars

C6_Witness ==
    \E i \in Invocations :
        /\ RequestFailed(i) /\ shouldPaginate[i]
        /\ Len(pages[i]) = 2 /\ Len(requests[i]) = 3
        /\ Len(allData[i].calls.a) = 2
        /\ Text(i).parts[1] = "API Error: Status "
        /\ Text(i).json = NoData

\* C7: every invocation of the handler, whatever the operation name, the
\* arguments, the response bodies and the failures, ends with a result of
\* the form {content: [{type: "text", text}]}; no exception escapes.
C7_AlwaysTextResult ==
    \A i \in Invocations :
        /\ result[i].status # "thrown"
        /\ Done(i) =>
              /\ result[i].status = "returned"
              /\ Len(result[i].content) = 1
              /\ result[i].content[1].type = "text"

C7_Witness ==
    \E i \in Invocations :
        /\ Done(i) /\ Len(pages[i]) = 2
        /\ pages[i][2] = NullBody
        /\ result[i].status = "returned"
        /\ Text(i).parts[1] = "Unexpected error: "

\* C8: the normalized arguments never hold the `paginate` key, and no request
\* carries `paginate` in its query string or its path.
C8_PaginateNotForwarded ==
    \A i \in Invocations :
        /\ validatedArgs[i].fields["paginate"] = Absent
        /\ \A k \in 1..Len(requests[i]) :
              /\ requests[i][k].url.query["paginate"] = Absent
              /\ requests[i][k].url.pathArgs["paginate"] = Absent

C8_Witness ==
    \E i \in Invocations :
        /\ toolName[i] = "getv2users"
        /\ toolArgs[i].fields["paginate"] = "bool:true"
        /\ Len(requests[i]) = 2
        /\ validatedArgs[i].fields["paginate"] = Absent

\* C9: a successful invocation with `paginate` absent or false returns the
\* upstream body unmodified except for the added _paginationInfo =
\* {hasMorePages: false, totalPages: 1, currentPage: 1}.
C9_RawBodyPlusInfo ==
    \A i \in Invocations :
        (NotPaginated(i) /\ Succeeded(i)) =>
            Text(i).json = [pages[i][1] EXCEPT !._paginationInfo =
                                [set |-> TRUE, hasMorePages |-> FALSE,
                                 totalPages |-> 1, currentPage |-> 1]]

\* C10: whenever every HTTP request of an invocation succeeded, whatever the
\* shape of the bodies, the returned text holds a _paginationInfo object.
C10_InfoInEveryResult ==
    \A i \in Invocations :
        (Done(i) /\ AllAnswered(i)) =>
            /\ result[i].status = "returned"
            /\ Text(i).json._paginationInfo.set

\* C11: in every successfully returned result _paginationInfo.totalPages is the
\* number of HTTP requests the invocation issued and currentPage equals
\* totalPages; the two counters are 1 when the loop starts and grow by exactly
\* one for each further page requested.
C11_PageCountersMatchRequests ==
    \A i \in Invocations :
        /\ pc[i] = "idle" => paginationInfo[i].totalPages = 1
        /\ (pc[i] = "await" \/ Succeeded(i)) =>
              /\ paginationInfo[i].totalPages = Len(requests[i])
              /\ paginationInfo[i].currentPage = paginationInfo[i].totalPages
        /\ Succeeded(i) =>
              /\ Text(i).json._paginationInfo.totalPages = Len(requests[i])
              /\ Text(i).json._paginationInfo.currentPage = Len(requests[i])

\* C13: no HTTP request is issued without both basic-auth credentials. When
\* the access key or the secret is absent or empty, an invocation that gets as
\* far as building a request returns the missing-credentials error text and
\* has issued no request; otherwise every request carries Authorization:
\* Basic base64(key:secret) of the two configured values and Accept:
\* application/json.
C13_NoRequestWithoutCredentials ==
    \A i \in Invocations :
        /\ (env.GONG_ACCESS_KEY \in {Absent, ""} \/ env.GONG_SECRET \in {Absent, ""}) =>
              /\ requests[i] = <<>>
              /\ (Started(i) /\ KnownTool(i) /\ ~InvalidArguments(i)) =>
                    /\ Done(i) /\ result[i].status = "returned"
                    /\ Text(i).parts = <<"Unexpected error: ", "Missing Gong credentials in environment">>
        /\ \A k \in 1..Len(requests[i]) :
              /\ env.GONG_ACCESS_KEY = "AK" /\ env.GONG_SECRET = "SK"
              /\ requests[i][k].headers.Authorization = <<"Basic", <<"base64", "AK", ":", "SK">>>>
              /\ requests[i][k].headers.Accept = "application/json"

C13_Witness ==
    \E i \in Invocations :
        /\ env.GONG_ACCESS_KEY = "AK" /\ env.GONG_SECRET = ""
        /\ Done(i) /\ KnownTool(i) /\ ~InvalidArguments(i)
        /\ requests[i] = <<>>
        /\ Text(i).parts[2] = "Missing Gong credentials in environment"

\* the arguments satisfy the operation's input schema as far as keys other
\* than `paginate` go
ValidApartFromPaginate(i) ==
    LET schema == Definition(i).inputSchema
        args == toolArgs[i]
    IN  /\ \A k \in schema.required : k \in KeysOf(args)
        /\ ("requestBody" \in schema.properties /\ args.requestBody.present)
              => args.requestBody.filter # Absent

\* C14: on every operation that declares `paginate`, the string "true" behaves
\* exactly like the boolean true (the invocation auto-paginates) and the
\* string "false" exactly like false (a single request); neither string is
\* rejected by validation.
C14_StringPaginateLikeBoolean ==
    \A i \in Invocations :
        ( /\ Started(i) /\ KnownTool(i)
          /\ "paginate" \in Definition(i).inputSchema.properties
          /\ toolArgs[i].fields["paginate"] \in {"str:true", "str:false"}
          /\ ValidApartFromPaginate(i) /\ ~MissingCredentials(env) ) =>
            /\ Len(requests[i]) >= 1
            /\ shouldPaginate[i] = (toolArgs[i].fields["paginate"] = "str:true")
            /\ Done(i) => Text(i).parts = <<>> \/ Text(i).parts[1] # "Validation error: "

\* page k of the invocation carries its items under a recognised array field
\* that is not an array in the result accumulated from the pages before it
ShapeChangedAt(i, k) ==
    /\ k >= 2 /\ k <= Len(pages[i])
    /\ pages[i][k].kind = "object"
    /\ MergeField(pages[i][k]) # 0
    /\ pages[i][1].kind = "object"
    /\ ~IsArrayField(pages[i][1], ArrayFields[MergeField(pages[i][k])])

\* C19: when a later page carries its items under a recognised array field
\* that is not an array in the accumulated result, the invocation still
\* succeeds and no page is lost: its items are in the returned result, under
\* a recognised field or in the side array of additional pages.
C19_ShapeChangeTolerated ==
    \A i \in Invocations :
        (Done(i) /\ AllAnswered(i) /\ \E k \in 2..Len(pages[i]) : ShapeChangedAt(i, k)) =>
            /\ Succeeded(i)
            /\ \A k \in 2..Len(pages[i]) :
                  ShapeChangedAt(i, k) =>
                      LET f == ArrayFields[MergeField(pages[i][k])]
                          items == pages[i][k][f].a
                      IN  \/ \E g \in RecognisedFields :
                                \A j \in 1..Len(items) :
                                    \E n \in 1..Len(Text(i).json[g].a) : Text(i).json[g].a[n] = items[j]
                          \/ \E n \in 1..Len(Text(i).json.additionalPages) :
                                Text(i).json.additionalPages[n] = pages[i][k]

\* C20: when a page after the first is a top-level array, it is concatenated
\* onto the accumulated result, earlier pages first, and the invocation
\* succeeds.
C20_LaterArrayPageConcatenated ==
    \A i \in Invocations :
        (Done(i) /\ AllAnswered(i) /\ Len(pages[i]) >= 2
            /\ pages[i][Len(pages[i])].kind = "array") =>
            /\ Succeeded(i)
            /\ LET last == pages[i][Len(pages[i])].items
                   out == Text(i).json.items
               IN  /\ Len(out) >= Len(last)
                   /\ SubSeq(out, Len(out) - Len(last) + 1, Len(out)) = last

\* call b of acquireOAuth2Token began after call a had returned a token it
\* obtained from the token endpoint, for the same scheme (the client id is the
\* process's own, hence the same)
SecondAfterExchange(a, b) ==
    /\ a # b
    /\ acquire[b].pc = "done" /\ a \in acquire[b].after
    /\ acquire[a].exchanged
    /\ acquire[b].schemeName = acquire[a].schemeName

\* C16: of two consecutive token acquisitions for the same scheme and client
\* id, the second starting within the lifetime of the token the first
\* obtained, only the first issues a token-exchange request and the second
\* returns the cached token, whatever expires_in the provider stated.
C16_SecondAcquisitionCached ==
    \A a \in Acquirers : \A b \in Acquirers :
        ( /\ SecondAfterExchange(a, b)
          /\ acquire[b].now < acquire[a].issuedAt + acquire[a].expiresIn * 1000 ) =>
            /\ Len(tokenRequests) = 1
            /\ acquire[b].returned = acquire[a].returned

\* C16 amended: of two consecutive token acquisitions for the same scheme and
\* client id, the second starting more than 60 seconds before the end of the
\* token's lifetime as counted from the start of the first, only the first
\* issues a token-exchange request and the second returns the cached token.
C16_SecondAcquisitionCachedBeforeMargin ==
    \A a \in Acquirers : \A b \in Acquirers :
        ( /\ SecondAfterExchange(a, b)
          /\ acquire[b].now < acquire[a].now + acquire[a].expiresIn * 1000 - 60000 ) =>
            /\ Len(tokenRequests) = 1
            /\ acquire[b].returned = acquire[a].returned

C16_Witness ==
    \E a \in Acquirers : \E b \in Acquirers :
        /\ SecondAfterExchange(a, b)
        /\ acquire[a].expiresIn = 120
        /\ acquire[b].now > acquire[a].now
        /\ acquire[b].now < acquire[a].now + 60000
        /\ Len(tokenRequests) = 1
        /\ acquire[b].returned = "t1"

\* C15: the credential a request carries is the one the operation's
\* securityRequirement selects: the basic-auth pair for `basicAuth`, and for
\* an operation that names an OAuth2 scheme the bearer token obtained from
\* acquireOAuth2Token; when that provider returns null (no client id
\* configured) the invocation fails with the missing-credentials error and
\* issues no request.
C15_CredentialBySecurityRequirement ==
    \A i \in Invocations :
        LET required == definition[i].securityRequirements
        IN  /\ \A k \in 1..Len(requests[i]) :
                  /\ required = <<"basicAuth">> =>
                        requests[i][k].headers.Authorization = <<"Basic", <<"base64", "AK", ":", "SK">>>>
                  /\ (required # <<>> /\ required[1] \in SchemeNames) =>
                        requests[i][k].headers.Authorization[1] = "Bearer"
            /\ ( /\ Started(i) /\ required # <<>> /\ required[1] \in SchemeNames
                 /\ env.OAUTH_CLIENT_ID_SCHEMENAME = Absent ) =>
                  /\ requests[i] = <<>>
                  /\ Done(i) /\ caught[i] # NoError

\* C17: for an operation whose inputSchema is malformed (not an object, or
\* failing compilation) validation accepts every argument object and keeps
\* all its fields (`paginate` is taken out afterwards), so the operation stays
\* callable: with the credentials configured it issues its HTTP request.
C17_MalformedSchemaPassthrough ==
    \A i \in Invocations :
        (Started(i) /\ definition[i] # NoDefinition /\ ~definition[i].inputSchema.wellFormed) =>
            /\ caught[i].kind # "ZodError"
            /\ \A k \in ScalarKeys \ {"paginate"} : validatedArgs[i].fields[k] = toolArgs[i].fields[k]
            /\ validatedArgs[i].requestBody = toolArgs[i].requestBody
            /\ shouldPaginate[i] = (toolArgs[i].fields["paginate"] \in {"bool:true", "str:true"})
            /\ (env.GONG_ACCESS_KEY = "AK" /\ env.GONG_SECRET = "SK") => Len(requests[i]) >= 1

C17_Witness ==
    \E i \in Invocations :
        /\ definition[i].name = "postv2callsextensive"
        /\ ~definition[i].inputSchema.wellFormed
        /\ toolArgs[i].requestBody.present /\ toolArgs[i].requestBody.filter = Absent
        /\ toolArgs[i].fields["paginate"] = "str:true"
        /\ toolArgs[i].fields["cursor"] = "c0"
        /\ validatedArgs[i].fields["cursor"] = "c0"
        /\ Len(requests[i]) = 2
        /\ Succeeded(i)

\* the invocation returned something else than the text of its result
Failed(i) == Done(i) /\ ~Succeeded(i)

\* C18: every failure of an invocation is rendered with exactly one of four
\* labels, by its kind: a validation failure as "Validation error: ...", an
\* HTTP error with a response as "API Error: Status <code> (...)...", an HTTP
\* error with no response as "API Network Error: No response received from
\* server." (plus " (Code: <code>)" when there is a code), anything else as
\* "Unexpected error: <message>".
C18_FourErrorLabels ==
    \A i \in Invocations :
        Failed(i) =>
            /\ result[i].status = "returned"
            /\ LET e == caught[i]
                   parts == Text(i).parts
               IN  IF e.kind = "ZodError" THEN parts[1] = "Validation error: "
                   ELSE IF e.kind = "AxiosError" /\ e.hasResponse
                   THEN parts[1] = "API Error: Status " /\ parts[2] = e.status
                   ELSE IF e.kind = "AxiosError"
                   THEN /\ parts[1] = "API Network Error: No response received from server."
                        /\ e.code # Absent => parts = <<parts[1], " (Code: ", e.code, ")">>
                   ELSE parts = <<"Unexpected error: ", e.message>>

\* C18 amended: every failure of an invocation is rendered with exactly one
\* of six labels, by its kind: an unknown tool as "Error: Unknown tool
\* requested: <name>", a validation failure as "Validation error: ...", an
\* HTTP error with a response as "API Error: Status <code> (...)...", an HTTP
\* error with a request but no response as "API Network Error: No response
\* received from server." (plus " (Code: <code>)"), an HTTP error with neither
\* as "API request failed.API Request Setup Error: <message>", anything else
\* as "Unexpected error: <message>".
C18_SixErrorLabels ==
    \A i \in Invocations :
        Failed(i) =>
            /\ result[i].status = "returned"
            /\ LET e == caught[i]
                   parts == Text(i).parts
               IN  IF e = NoError
                   THEN ~KnownTool(i) /\ parts = <<"Error: Unknown tool requested: ", toolName[i]>>
                   ELSE IF e.kind = "ZodError" THEN parts[1] = "Validation error: "
                   ELSE IF e.kind = "AxiosError" /\ e.hasResponse
                   THEN parts[1] = "API Error: Status " /\ parts[2] = e.status
                   ELSE IF e.kind = "AxiosError" /\ e.hasRequest
                   THEN /\ parts[1] = "API Network Error: No response received from server."
                        /\ IF e.code = Absent THEN Len(parts) = 1
                           ELSE parts = <<parts[1], " (Code: ", e.code, ")">>
                   ELSE IF e.kind = "AxiosError"
                   THEN parts = <<"API request failed.", "API Request Setup Error: ", e.message>>
                   ELSE parts = <<"Unexpected error: ", e.message>>

C18_Witness ==
    \E i \in Invocations :
        /\ Failed(i)
        /\ caught[i].kind = "AxiosError" /\ ~caught[i].hasResponse /\ ~caught[i].hasRequest
        /\ Text(i).parts[1] = "API request failed."

\* the last page the invocation received carried a cursor and the next page
\* is awaited
CursorPending(i) == pc[i] = "await" /\ paginationInfo[i].hasMorePages

\* C12: every invocation eventually returns a result, success or formatted
\* failure: the pagination loop runs to completion for any sequence of
\* upstream responses, given that each HTTP request eventually completes.
C12_EveryInvocationReturns ==
    \A i \in LiveInvocations : Started(i) ~> Done(i)

\* C12 amended: given that each HTTP request eventually completes, every
\* invocation eventually returns a result unless the upstream goes on
\* answering its pages with a cursor for ever; the loop has no bound of its
\* own on the number of pages.
C12_ReturnsUnlessCursorsForEver ==
    \A i \in LiveInvocations :
        (<>[](~CursorPending(i))) => (Started(i) ~> Done(i))

C12_Witness ==
    \E i \in Invocations :
        /\ Succeeded(i) /\ shouldPaginate[i]
        /\ Len(pages[i]) = 3 /\ Len(requests[i]) = 3
        /\ cursors[i] = <<"n1", "n2", Null>>

(* ------------------------------- C21 ------------------------------------ *)

RECURSIVE MergedInto(_, _)
\* the arrays that the pages ps contribute to field f: those of the pages
\* whose merge branch is f, joined in fetch order
MergedInto(ps, f) ==
    IF ps = <<>> THEN <<>>
    ELSE LET d == ps[Len(ps)]
             rest == MergedInto(SubSeq(ps, 1, Len(ps) - 1), f)
         IN  IF MergeField(d) # 0 /\ ArrayFields[MergeField(d)] = f
             THEN rest \o d[f].a ELSE rest

RECURSIVE OtherPages(_)
\* the pages of ps without a recognised array, in fetch order
OtherPages(ps) ==
    IF ps = <<>> THEN <<>>
    ELSE LET d == ps[Len(ps)]
             rest == OtherPages(SubSeq(ps, 1, Len(ps) - 1))
         IN  IF MergeField(d) = 0 THEN Append(rest, d) ELSE rest

\* the pages fetched after the first
LaterPages(i) == SubSeq(pages[i], 2, Len(pages[i]))

\* the invocation auto-paginated, fetched two or more pages and returned its result
MergedSuccess(i) == Succeeded(i) /\ shouldPaginate[i] /\ Len(pages[i]) >= 2

\* C21: no fetched page is silently lost. In every successful auto-paginated
\* invocation each page after the first with a recognised array has that
\* array's items in the returned text, after the items of the earlier pages
\* of the same field, and each page without a recognised array is an element
\* of the returned additionalPages, whole and in fetch order.
C21_NoPageLost ==
    \A i \in Invocations :
        MergedSuccess(i) =>
            /\ \A f \in RecognisedFields :
                  (\E k \in 2..Len(pages[i]) :
                      MergeField(pages[i][k]) = MergeOrder(f)) =>
                     Text(i).json[f] =
                        Arr(pages[i][1][f].a \o MergedInto(LaterPages(i), f))
            /\ Text(i).json.additionalPages = OtherPages(LaterPages(i))

C21_Witness ==
    \E i \in Invocations :
        /\ MergedSuccess(i) /\ Len(pages[i]) = 3
        /\ MergeField(pages[i][2]) = 0 /\ MergeField(pages[i][3]) = 0
        /\ pages[i][2] # pages[i][3]
        /\ Text(i).json.additionalPages = <<pages[i][2], pages[i][3]>>

(* ------------------------------- C22 ------------------------------------ *)

\* the cursor the probe extracts from the last page fetched
LastCursor(i) == ExtractNextCursor(pages[i][Len(pages[i])])

\* C22: after a successful auto-paginated invocation of two or more pages the
\* result's nextPageCursor is the cursor extracted from the last page (null),
\* and none of the probed places of the result (records.nextPageCursor,
\* nextPageCursor, cursor) holds a cursor of an earlier page.
C22_NoStaleCursor ==
    \A i \in Invocations :
        MergedSuccess(i) =>
            /\ LastCursor(i) = Null
            /\ Text(i).json.nextPageCursor = LastCursor(i)
            /\ \A p \in 1..3 : ~Truthy(ProbedValues(Text(i).json)[p])

(* ------------------------------- C29 ------------------------------------ *)

\* C29: every successfully returned result carries _paginationInfo with
\* hasMorePages = false, whether or not pagination was requested and
\* whatever the upstream answered.
C29_HasMorePagesFalseOnReturn ==
    \A i \in Invocations :
        Succeeded(i) =>
            /\ Text(i).json._paginationInfo.set
            /\ Text(i).json._paginationInfo.hasMorePages = FALSE

(* ------------------------------- C30 ------------------------------------ *)

\* some page after the first is merged through field f
MergedThrough(i, f) ==
    \E k \in 2..Len(pages[i]) : MergeField(pages[i][k]) = MergeOrder(f)

\* C30: on each page after the first exactly one merge branch applies, the
\* first of records, calls, users, results that is an array on that page, or
\* the additionalPages branch. In the result of a successful auto-paginated
\* invocation every recognised field holds the first page's value followed
\* by the arrays of just the pages merged through that field (a second
\* recognised array of a page is not appended anywhere), and every other
\* field apart from nextPageCursor, additionalPages and _paginationInfo has
\* its first-page value.
C30_OneBranchPerPage ==
    \A i \in Invocations :
        MergedSuccess(i) =>
            /\ \A f \in RecognisedFields :
                  Text(i).json[f] =
                     IF MergedThrough(i, f)
                     THEN Arr(pages[i][1][f].a \o MergedInto(LaterPages(i), f))
                     ELSE pages[i][1][f]
            /\ \A g \in {"kind", "items", "cursor", "requestId"} :
                  Text(i).json[g] = pages[i][1][g]
            /\ Len(Text(i).json.additionalPages)
                  = Cardinality({k \in 2..Len(pages[i]) : MergeField(pages[i][k]) = 0})

C30_Witness ==
    \E i \in Invocations :
        /\ MergedSuccess(i) /\ Len(pages[i]) = 2
        /\ IsArrayField(pages[i][1], "calls") /\ IsArrayField(pages[i][1], "users")
        /\ IsArrayField(pages[i][2], "calls") /\ IsArrayField(pages[i][2], "users")
        /\ Len(pages[i][2].users.a) = 1
        /\ Text(i).json.calls = Arr(pages[i][1].calls.a \o pages[i][2].calls.a)
        /\ Text(i).json.users = pages[i][1].users

(* ------------------------------- C25 ------------------------------------ *)

\* the lifetime in seconds the provider stated for the token of a's
\* exchange, 3600 when its response stated none
StatedLifetime(a) ==
    IF acquire[a].answer.data.stated THEN acquire[a].answer.data.expires_in
    ELSE DefaultExpiresIn

\* the expiry the claim gives the entry of a's exchange
MarginExpiry(a) == acquire[a].now + StatedLifetime(a) * MsPerSecond - ExpiryMargin

\* a returned a token from the cache
ServedFromCache(a) ==
    acquire[a].pc = "done" /\ ~acquire[a].exchanged /\ Truthy(acquire[a].returned)

\* C25: every cache entry is the one written by a successful exchange, with
\* expiresAt = (start of that acquisition) + expires_in*1000 - 60000 ms,
\* expires_in being the provider's figure and 3600 when it stated none; and a
\* token is returned from the cache only at an instant strictly before that
\* expiry, 60 seconds or more ahead of the expiry the provider stated.
C25_CacheExpiryMargin ==
    /\ \A k \in CacheKeys :
          tokenCache.entries[k].set =>
             \E a \in Acquirers :
                /\ acquire[a].exchanged /\ acquire[a].cacheKey = k
                /\ tokenCache.entries[k] = TokenCacheEntry(acquire[a].returned, MarginExpiry(a))
    /\ \A a \in Acquirers :
          ServedFromCache(a) =>
             \E b \in Acquirers :
                /\ acquire[b].exchanged /\ acquire[b].cacheKey = acquire[a].cacheKey
                /\ acquire[b].returned = acquire[a].returned
                /\ acquire[a].now < MarginExpiry(b)

(* ------------------------------- C26 ------------------------------------ *)

\* the token requests acquisition a has issued
ExchangesBy(a) == Len(SelectSeq(tokenRequests, LAMBDA r : r.by = a))

\* the configuration a was called with is incomplete: no client id, no
\* client secret, or a scheme without a token URL
ConfigIncomplete(a) ==
    \/ ~Truthy(env.OAUTH_CLIENT_ID_SCHEMENAME)
    \/ ~Truthy(env.OAUTH_CLIENT_SECRET_SCHEMENAME)
    \/ TokenUrl(Schemes[acquire[a].schemeName]) = Absent

\* a's token exchange failed: a transport error or a response without access_token
ExchangeFailed(a) ==
    \/ acquire[a].answer.kind = "error"
    \/ acquire[a].answer.kind = "response" /\ ~Truthy(acquire[a].answer.data.access_token)

\* C26: an acquisition whose configuration is incomplete or whose token
\* exchange fails returns null, has issued at most one exchange request (none
\* when the configuration is incomplete), issues none on failing, and the
\* step on which it returns leaves every token cache entry as it was.
C26_NullWithoutRetry ==
    [][\A a \in Acquirers :
          /\ ExchangesBy(a)' <= 1
          /\ ( /\ acquire[a].pc # "done" /\ acquire'[a].pc = "done"
               /\ (ConfigIncomplete(a)' \/ ExchangeFailed(a)') ) =>
                  /\ acquire'[a].returned = Null
                  /\ tokenCache'.entries = tokenCache.entries
                  /\ tokenRequests' = tokenRequests
                  /\ ConfigIncomplete(a)' => ExchangesBy(a)' = 0]_vars

C26_Witness ==
    \E a, b \in Acquirers :
        /\ acquire[a].pc = "done" /\ acquire[a].exchanged
        /\ acquire[b].pc = "done" /\ acquire[b].answer.kind = "error"
        /\ acquire[b].cacheKey = acquire[a].cacheKey /\ a \in acquire[b].after
        /\ acquire[b].returned = Null /\ ExchangesBy(b) = 1
        /\ tokenCache.entries[acquire[a].cacheKey]
              = TokenCacheEntry(acquire[a].returned, ExpiresAt(acquire[a].now, acquire[a].expiresIn))

(* ------------------------------- C27 ------------------------------------ *)

\* the provider issued token t to acquisition b
IssuedTo(b, t) ==
    /\ acquire[b].answer.kind = "response"
    /\ Truthy(t) /\ acquire[b].answer.data.access_token = t

\* the acquisitions a and b ran concurrently: each began before the other returned
Overlapped(a, b) ==
    /\ a # b /\ acquire[a].pc = "done" /\ acquire[b].pc = "done"
    /\ a \notin acquire[b].after /\ b \notin acquire[a].after

\* C27: under any interleaving of token acquisitions each acquisition
\* returns null or a token the provider issued, issues at most one exchange
\* request, and once all have returned every cache entry holds the token of
\* one successful exchange together with the expiry computed for that same
\* exchange.
C27_BenignCacheRace ==
    /\ \A a \in Acquirers :
          /\ ExchangesBy(a) <= 1
          /\ acquire[a].pc = "done" =>
                \/ acquire[a].returned = Null
                \/ \E b \in Acquirers : IssuedTo(b, acquire[a].returned)
    /\ (\A a \in Acquirers : acquire[a].pc = "done") =>
          \A k \in CacheKeys :
             tokenCache.entries[k].set =>
                \E b \in Acquirers :
                   /\ acquire[b].cacheKey = k
                   /\ IssuedTo(b, tokenCache.entries[k].token)
                   /\ tokenCache.entries[k].expiresAt
                         = ExpiresAt(acquire[b].now, ExpiresIn(acquire[b].answer.data))

C27_Witness ==
    \E a, b \in Acquirers :
        /\ Overlapped(a, b)
        /\ acquire[a].cacheKey = acquire[b].cacheKey
        /\ acquire[a].exchanged /\ acquire[b].exchanged
        /\ acquire[a].returned # acquire[b].returned
        /\ acquire[a].now # acquire[b].now
        /\ ExchangesBy(a) = 1 /\ ExchangesBy(b) = 1
        /\ tokenCache.entries[acquire[a].cacheKey]
              = TokenCacheEntry(acquire[b].returned, ExpiresAt(acquire[b].now, acquire[b].expiresIn))

(* ------------------------------- C23 ------------------------------------ *)

\* request k of the invocation carries the cursor of page k-1 in its query string
CursorInQuery(i, k) ==
    requests[i][k].url.query["cursor"] = ExtractNextCursor(pages[i][k - 1])

\* request k of the invocation carries the cursor of page k-1 in its body
CursorInBody(i, k) ==
    /\ requests[i][k].data.present
    /\ requests[i][k].data.cursor = ExtractNextCursor(pages[i][k - 1])

\* C23: for any operation descriptor, no request of an invocation carries
\* the pagination cursor both in its query string and in its body.
C23_CursorInOnePlace ==
    \A i \in Invocations : \A k \in 2..Len(requests[i]) :
        ~(CursorInQuery(i, k) /\ CursorInBody(i, k))

(* ------------------------------- C24 ------------------------------------ *)

\* C24: an invocation does not change its caller's argument object. From
\* the call on, through every request, response and failure, toolArgs with
\* its paginate, requestBody and requestBody.cursor stays what the caller
\* passed: the pagination flag read from it still matches it, the delete of
\* paginate fell on the validated copy, and the cursor of each page went to
\* the body of the request alone.
C24_CallerArgumentsUnchanged ==
    [][\A i \in Invocations :
          /\ pc[i] # "idle" => toolArgs'[i] = toolArgs[i]
          /\ pc'[i] = "await" =>
                /\ shouldPaginate'[i] = ShouldPaginate(toolArgs'[i])
                /\ validatedArgs'[i].fields["paginate"] = Absent]_vars

C24_Witness ==
    \E i \in Invocations :
        /\ Succeeded(i) /\ Len(requests[i]) = 2
        /\ SharesRequestBody(definition[i])
        /\ toolArgs[i].fields["paginate"] = "bool:true"
        /\ toolArgs[i].requestBody.present /\ toolArgs[i].requestBody.cursor = Absent
        /\ requests[i][2].data.present
        /\ requests[i][2].data.cursor = ExtractNextCursor(pages[i][1])
        /\ Truthy(requests[i][2].data.cursor)

(* ------------------------------- C28 ------------------------------------ *)

\* where an invocation stands: its private loop state and its result
LoopState(p, all, cursor, info, r) ==
    [pc |-> p, allData |-> all, currentCursor |-> cursor, paginationInfo |-> info, result |-> r]

RECURSIVE AlonePass(_, _, _, _, _)
\* an invocation run on its own from the top of loop pass k with accumulator
\* all, counters info and cursor: c holds its descriptor, validated
\* arguments, pagination flag, the environment, the responses ps it is
\* answered with in turn and, when the request after the last response
\* failed, the error err
AlonePass(c, k, all, info, cursor) ==
    IF MissingCredentials(c.e)
    THEN LoopState("done", all, cursor, info, Catch(CredentialsError))
    ELSE IF k > Len(c.ps)
    THEN IF c.failed THEN LoopState("done", all, cursor, info, Catch(c.err))
         ELSE LoopState("await", all, cursor, info, NoResult)
    ELSE LET data == c.ps[k]
             nextCursor == ExtractNextCursor(data)
             next == UpdatePaginationInfo(info, nextCursor, c.paginate)
             merged == MergePage(all, data, nextCursor)
         IN  IF ~merged.ok THEN LoopState("done", all, cursor, next, Catch(TypeError))
             ELSE IF Truthy(nextCursor) /\ c.paginate
             THEN AlonePass(c, k + 1, merged.data, next, nextCursor)
             ELSE LET final == AttachPaginationInfo(merged.data, next)
                  IN  IF final.ok
                      THEN LoopState("done", final.data, nextCursor, next,
                                     TextResult(<<>>, JSONstringify(final.data)))
                      ELSE LoopState("done", merged.data, nextCursor, next, Catch(TypeError))

\* executeApiTool run on its own with the arguments invocation i was called
\* with, against the responses (and the failure, if any) that i received
Alone(i) ==
    LET def == definition[i]
        zodSchema == getZodSchemaFromJsonSchema(def.inputSchema)
    IN  IF ~SchemaAccepts(zodSchema, toolArgs[i])
        THEN LoopState("done", NullBody, Null, InitialPaginationInfo, Catch(ZodError))
        ELSE LET vArgs == DeletePaginate(SchemaOutput(zodSchema, toolArgs[i]))
                 c == [def |-> def, vArgs |-> vArgs, paginate |-> ShouldPaginate(toolArgs[i]),
                       e |-> env, ps |-> pages[i],
                       failed |-> caught[i].kind = "AxiosError", err |-> caught[i]]
             IN  AlonePass(c, 1, NullBody, InitialPaginationInfo, InitialCursor(def, vArgs))

\* C28: concurrent invocations do not interfere. However two invocations
\* interleave at their HTTP awaits, the cursor, the merged data, the page
\* counters and the result of each are at every moment what the invocation
\* would have on its own with the same arguments and the same sequence of
\* upstream responses.
C28_InvocationsIsolated ==
    \A i \in Invocations :
        (Started(i) /\ KnownTool(i)) =>
            LoopState(pc[i], allData[i], currentCursor[i], paginationInfo[i], result[i])
               = Alone(i)

C28_Witness ==
    \E i, j \in Invocations :
        /\ i # j /\ pc[i] = "await" /\ pc[j] = "await"
        /\ Len(pages[i]) = 1 /\ Len(requests[i]) = 2
        /\ Len(pages[j]) = 1 /\ Len(requests[j]) = 2
        /\ IsArrayField(pages[i][1], "calls") /\ IsArrayField(pages[j][1], "users")
        /\ currentCursor[i] = ExtractNextCursor(pages[i][1])
        /\ currentCursor[j] = ExtractNextCursor(pages[j][1])
        /\ currentCursor[i] # currentCursor[j]
        /\ allData[i] = pages[i][1] /\ allData[j] = pages[j][1]
        /\ paginationInfo[i].totalPages = 2 /\ paginationInfo[j].totalPages = 2

====
